---- MODULE Spec2Model ----
(***************************************************************************)
(* A model of the refinement pipeline of fastdupes.py: find_dupes, groupBy, *)
(* the groupify-wrapped sizeClassifier and hashClassifier, hashFile,        *)
(* groupByContent and compareChunks.                                        *)
(*                                                                          *)
(* A file's bytes are kept sparsely: a length and the set of offsets whose  *)
(* byte is 1 (every other byte is 0), so that the program's real HEAD_SIZE  *)
(* and CHUNK_SIZE can be used.  A block returned by read() has the same     *)
(* shape, with offsets relative to the start of the block; two blocks are   *)
(* equal as values exactly when they are equal byte for byte.               *)
(***************************************************************************)
EXTENDS Integers, Sequences, FiniteSets, TLC

VARIABLES
    files,      \* the file system: path -> what lstat/open/read give for it
    min_size,   \* find_dupes argument
    exact,      \* find_dupes argument
    chunkSize,  \* compareChunks' chunkSize argument
    collide,    \* whether the digest function has colliding inputs
    pc,         \* position in find_dupes
    exc,        \* the exception that left find_dupes, "none" if none did
    stages,     \* the value of `groups` after each assignment in find_dupes
    todo,       \* groupBy(contents): keys of groups_in not yet enumerated
    acc,        \* groupBy(contents): the local dict `groups`
    gbc,        \* groupByContent call in progress: its position and argument
    handles,    \* groupByContent: the worklist `handles`
    results,    \* groupByContent: the list `results`
    openFh,     \* paths whose stream is open (opened and not closed)
    gbcLog,     \* completed groupByContent calls: argument, opened, returned
    reads,      \* groupByContent: number of read() calls made on each stream
    hashArgs,   \* a call of hashFile on its own: its arguments
    hashRet     \* a call of hashFile on its own: what it returned

vars == <<files, min_size, exact, chunkSize, collide, pc, exc, stages,
          todo, acc, gbc, handles, results, openFh, gbcLog, reads,
          hashArgs, hashRet>>

----------------------------------------------------------------------------
(* Program constants *)

CHUNK_SIZE == 65536

HEAD_SIZE == 16384

\* limit=None (and 0): "Values which evaluate boolean False indicate no limit"
NoLimit == 0

----------------------------------------------------------------------------
(* Bounds and input sets *)

NumPaths == 4

Paths == 1..NumPaths

NumGbcPaths == 5

GbcPaths == 1..NumGbcPaths

NumFairPaths == 3

FairPaths == 1..NumFairPaths

\* more read() calls on one stream than any file of the model needs
MaxReads == 5

MinSizes == {0, 5, 11}

ChunkSizes == {CHUNK_SIZE, 2 * CHUNK_SIZE}

Min(a, b) == IF a < b THEN a ELSE b

RegFile(n, o) == [kind |-> "reg", size |-> n, ones |-> o, err |-> "none", at |-> 0]

\* The files a path may name.  err = "stat": lstat raises OSError.
\* err = "open": open raises IOError from pipeline stage `at` on (2 = header
\* digest, 3 = final stage).  err = "read": read raises IOError when it has
\* to deliver a byte at offset >= at.
FileSeq ==
    << RegFile(0, {}),
       RegFile(10, {}),
       RegFile(10, {3}),
       RegFile(12, {}),
       RegFile(HEAD_SIZE + 1, {}),
       RegFile(HEAD_SIZE + 1, {HEAD_SIZE}),
       RegFile(2 * CHUNK_SIZE, {}),
       RegFile(2 * CHUNK_SIZE, {CHUNK_SIZE}),
       [kind |-> "lnk", size |-> 10, ones |-> {}, err |-> "none", at |-> 0],
       [kind |-> "reg", size |-> 2 * CHUNK_SIZE, ones |-> {}, err |-> "stat", at |-> 0],
       [kind |-> "reg", size |-> 2 * CHUNK_SIZE, ones |-> {}, err |-> "open", at |-> 2],
       [kind |-> "reg", size |-> 2 * CHUNK_SIZE, ones |-> {}, err |-> "open", at |-> 3],
       [kind |-> "reg", size |-> 2 * CHUNK_SIZE, ones |-> {}, err |-> "read", at |-> CHUNK_SIZE] >>

\* The files given to a call of groupByContent on its own
GbcFileSeq ==
    << RegFile(0, {}),
       RegFile(2 * CHUNK_SIZE, {}),
       RegFile(2 * CHUNK_SIZE, {3}),
       RegFile(2 * CHUNK_SIZE, {CHUNK_SIZE}),
       [kind |-> "reg", size |-> 2 * CHUNK_SIZE, ones |-> {}, err |-> "open", at |-> 3],
       [kind |-> "reg", size |-> 2 * CHUNK_SIZE, ones |-> {}, err |-> "read", at |-> CHUNK_SIZE] >>

\* The files, limits and read sizes given to hashFile on its own
HashPaths == {1, 2}

HashFileSeq ==
    << RegFile(0, {}),
       RegFile(10, {3}),
       RegFile(HEAD_SIZE + 1, {HEAD_SIZE}),
       RegFile(2 * CHUNK_SIZE, {}),
       RegFile(2 * CHUNK_SIZE, {HEAD_SIZE - 1}),
       RegFile(2 * CHUNK_SIZE, {HEAD_SIZE}),
       RegFile(2 * CHUNK_SIZE, {2 * HEAD_SIZE - 1}),
       RegFile(2 * CHUNK_SIZE, {2 * HEAD_SIZE}),
       RegFile(2 * CHUNK_SIZE, {CHUNK_SIZE}),
       RegFile(3 * CHUNK_SIZE, {2 * CHUNK_SIZE - 1}),
       RegFile(3 * CHUNK_SIZE, {2 * CHUNK_SIZE}),
       RegFile(3 * CHUNK_SIZE, {3 * CHUNK_SIZE - 1}) >>

Limits == {NoLimit, 10, HEAD_SIZE, HEAD_SIZE + 1, CHUNK_SIZE, CHUNK_SIZE + 1}

HashChunkSizes == {HEAD_SIZE, CHUNK_SIZE}

----------------------------------------------------------------------------
(* Sequences and sets *)

Range(s) == {s[i] : i \in 1..Len(s)}

Flatten(ss) == UNION {Range(ss[i]) : i \in 1..Len(ss)}

\* the orders in which a set can be iterated
Orders(S) == {s \in [1..Cardinality(S) -> S] : Range(s) = S}

Last(s) == s[Len(s)]

----------------------------------------------------------------------------
(* Values of Python calls: a returned value, None, or a raised exception *)

Ret(x) == [tag |-> "ret", val |-> <<x>>]

RetNone == [tag |-> "none", val |-> <<>>]

Raise(e) == [tag |-> e, val |-> <<>>]

IsRaise(r) == r.tag \notin {"ret", "none"}

----------------------------------------------------------------------------
(* The file system *)

EmptyBlock == [len |-> 0, ones |-> {}]

\* handle.read(n) at offset pos: at most n bytes, '' at end of file
Read(f, pos, n) ==
    IF pos >= f.size THEN EmptyBlock
    ELSE LET end == Min(pos + n, f.size)
         IN  [len |-> end - pos,
              ones |-> {q - pos : q \in {o \in f.ones : o >= pos /\ o < end}}]

ReadFails(f, pos, n) == f.err = "read" /\ Min(pos + n, f.size) > f.at

OpenFails(f, stage) == f.err = "open" /\ stage >= f.at

Concat(a, b) == [len |-> a.len + b.len,
                 ones |-> a.ones \cup {a.len + o : o \in b.ones}]

\* hashlib.sha1 over the bytes fed to update().  Without collisions the
\* digest determines the bytes; with collisions it keeps only their number.
sha1(data) == IF collide THEN [len |-> data.len, ones |-> {}] ELSE data

----------------------------------------------------------------------------
(* hashFile *)

\* limit < read in place of limit <= read at line 117
RECURSIVE hashLoop_strict(_, _, _, _, _, _)
hashLoop_strict(f, pos, read, fhash, chunk_size, limit) ==
    IF ReadFails(f, pos, chunk_size) THEN Raise("IOError")
    ELSE LET block == Read(f, pos, chunk_size)
         IN  IF block = EmptyBlock THEN Ret(sha1(fhash))
             ELSE IF 0 < limit /\ limit < read + chunk_size
                  THEN Ret(sha1(Concat(fhash, block)))
                  ELSE hashLoop_strict(f, pos + block.len, read + chunk_size,
                                       Concat(fhash, block), chunk_size, limit)

\* lines 113-120
RECURSIVE hashLoop(_, _, _, _, _, _)
hashLoop(f, pos, read, fhash, chunk_size, limit) ==
    IF ReadFails(f, pos, chunk_size) THEN Raise("IOError")
    ELSE LET block == Read(f, pos, chunk_size)
         IN  IF block = EmptyBlock THEN Ret(sha1(fhash))
             ELSE IF 0 < limit /\ limit <= read + chunk_size
                  THEN Ret(sha1(Concat(fhash, block)))
                  ELSE hashLoop(f, pos + block.len, read + chunk_size,
                                Concat(fhash, block), chunk_size, limit)

hashFile(fs, handle, limit, chunk_size, stage) ==
    IF OpenFails(fs[handle], stage) THEN Raise("IOError")
    ELSE hashLoop(fs[handle], 0, 0, EmptyBlock,
                  IF limit # NoLimit THEN Min(chunk_size, limit) ELSE chunk_size,
                  limit)

----------------------------------------------------------------------------
(* groupify and the classifiers built with it *)

\* wrapper(paths), `function` being given as the value of function(path)
\* for each path: the exception of function(path) if one raises, else the
\* dict key -> set of the paths with that key, None keys left out
groupify(paths, function) ==
    IF \E p \in paths : IsRaise(function[p])
    THEN Raise((CHOOSE r \in {function[p] : p \in paths} : IsRaise(r)).tag)
    ELSE LET keys == {function[p].val[1] : p \in {q \in paths : function[q].tag = "ret"}}
         IN  Ret([k \in keys |-> {p \in paths : function[p] = Ret(k)}])

\* without the size limit of lines 309-310
sizeClassifier1_nomin(fs, path, minSize) ==
    IF fs[path].err = "stat" THEN Raise("OSError")
    ELSE IF fs[path].kind = "lnk" THEN RetNone
    ELSE Ret(fs[path].size)

\* without the symlink test of lines 306-307
sizeClassifier1_nolnk(fs, path, minSize) ==
    IF fs[path].err = "stat" THEN Raise("OSError")
    ELSE IF fs[path].size < minSize THEN RetNone
    ELSE Ret(fs[path].size)

\* with the lstat error caught and the path skipped
sizeClassifier1_swallow(fs, path, minSize) ==
    IF fs[path].err = "stat" THEN RetNone
    ELSE IF fs[path].kind = "lnk" THEN RetNone
    ELSE IF fs[path].size < minSize THEN RetNone
    ELSE Ret(fs[path].size)

\* lines 305-312, the function that groupify wraps
sizeClassifier1(fs, path, minSize) ==
    IF fs[path].err = "stat" THEN Raise("OSError")
    ELSE IF fs[path].kind = "lnk" THEN RetNone
    ELSE IF fs[path].size < minSize THEN RetNone
    ELSE Ret(fs[path].size)

sizeClassifier(fs, paths, minSize) ==
    groupify(paths, [p \in paths |-> sizeClassifier1(fs, p, minSize)])

hashClassifier(fs, paths, limit, stage) ==
    groupify(paths, [p \in paths |-> hashFile(fs, p, limit, CHUNK_SIZE, stage)])

----------------------------------------------------------------------------
(* groupBy *)

EmptyDict == [k \in {} |-> {}]

\* groups.setdefault(key, set()).update(group) for every item of `new`
Update(groups, new) ==
    [k \in DOMAIN groups \cup DOMAIN new |->
        (IF k \in DOMAIN groups THEN groups[k] ELSE {})
        \cup (IF k \in DOMAIN new THEN new[k] ELSE {})]

\* len(groups[x]) > 0 in place of > 1
DropUniques_any(groups) ==
    [k \in {x \in DOMAIN groups : Cardinality(groups[x]) > 0} |-> groups[k]]

\* dict([(x, groups[x]) for x in groups if len(groups[x]) > 1])
DropUniques(groups) ==
    [k \in {x \in DOMAIN groups : Cardinality(groups[x]) > 1} |-> groups[k]]

\* lines 260-262
keepGroups(groups, keep_uniques) ==
    IF keep_uniques THEN groups ELSE DropUniques(groups)

\* lines 249-258, `classified` being the value of classifier(paths) for the
\* group of each key in `keys`
RECURSIVE mergeAll(_, _)
mergeAll(classified, keys) ==
    IF keys = {} THEN EmptyDict
    ELSE LET k == CHOOSE x \in keys : TRUE
         IN  Update(mergeAll(classified, keys \ {k}), classified[k].val[1])

\* groupBy(groups_in, classifier, keep_uniques=...), `classified` being the
\* value of classifier(groups_in[k]) for each key k of groups_in
groupBy(classified, keep_uniques) ==
    IF \E k \in DOMAIN classified : IsRaise(classified[k])
    THEN Raise((CHOOSE r \in {classified[k] : k \in DOMAIN classified}
                    : IsRaise(r)).tag)
    ELSE Ret(keepGroups(mergeAll(classified, DOMAIN classified), keep_uniques))

----------------------------------------------------------------------------
(* compareChunks *)

\* a comparison of the chunks' lengths only
SameChunk_len(pivot, c) == pivot.chunk.len = c.chunk.len

\* a prefix test in place of equality: a.startswith(b) or b.startswith(a)
SameChunk_prefix(pivot, c) ==
    LET a == IF pivot.chunk.len <= c.chunk.len THEN pivot.chunk ELSE c.chunk
        b == IF pivot.chunk.len <= c.chunk.len THEN c.chunk ELSE pivot.chunk
    IN  a.ones = {o \in b.ones : o < a.len}

\* line 400: matches[0][2] == chunk[2]
SameChunk(pivot, c) == pivot.chunk = c.chunk

\* lines 399-403: split chunks[1:] by equality with the pivot chunk
Matching(chunks) == SelectSeq(Tail(chunks), LAMBDA c : SameChunk(chunks[1], c))

NonMatching(chunks) == SelectSeq(Tail(chunks), LAMBDA c : ~SameChunk(chunks[1], c))

PathsOf(hs) == [i \in 1..Len(hs) |-> hs[i].path]

\* the outer loop left after its first turn, the non-matching chunks dropped
partitionChunks_once(chunks) ==
    IF chunks = <<>> THEN [more |-> <<>>, done |-> <<>>]
    ELSE LET matches == <<chunks[1]>> \o Matching(chunks)
         IN  IF Len(matches) = 1 \/ matches[1].chunk = EmptyBlock
             THEN [more |-> <<>>, done |-> <<PathsOf(matches)>>]
             ELSE [more |-> <<matches>>, done |-> <<>>]

\* every finished path appended to `done` as a list of its own
RECURSIVE partitionChunks_split(_)
partitionChunks_split(chunks) ==
    IF chunks = <<>> THEN [more |-> <<>>, done |-> <<>>]
    ELSE LET matches == <<chunks[1]>> \o Matching(chunks)
             rest == partitionChunks_split(NonMatching(chunks))
         IN  IF Len(matches) = 1 \/ matches[1].chunk = EmptyBlock
             THEN [more |-> rest.more,
                   done |-> [i \in 1..Len(matches) |-> <<matches[i].path>>] \o rest.done]
             ELSE [more |-> <<matches>> \o rest.more, done |-> rest.done]

\* chunks = chunks[1:] in place of chunks = non_matches at line 411
RECURSIVE partitionChunks_overlap(_)
partitionChunks_overlap(chunks) ==
    IF chunks = <<>> THEN [more |-> <<>>, done |-> <<>>]
    ELSE LET matches == <<chunks[1]>> \o Matching(chunks)
             rest == partitionChunks_overlap(Tail(chunks))
         IN  IF Len(matches) = 1 \/ matches[1].chunk = EmptyBlock
             THEN [more |-> rest.more, done |-> <<PathsOf(matches)>> \o rest.done]
             ELSE [more |-> <<matches>> \o rest.more, done |-> rest.done]

\* without the end-of-file test of line 405
RECURSIVE partitionChunks_noeof(_)
partitionChunks_noeof(chunks) ==
    IF chunks = <<>> THEN [more |-> <<>>, done |-> <<>>]
    ELSE LET matches == <<chunks[1]>> \o Matching(chunks)
             rest == partitionChunks_noeof(NonMatching(chunks))
         IN  IF Len(matches) = 1
             THEN [more |-> rest.more, done |-> <<PathsOf(matches)>> \o rest.done]
             ELSE [more |-> <<matches>> \o rest.more, done |-> rest.done]

RECURSIVE partitionChunks(_)
partitionChunks(chunks) ==
    IF chunks = <<>> THEN [more |-> <<>>, done |-> <<>>]
    ELSE LET matches == <<chunks[1]>> \o Matching(chunks)
             rest == partitionChunks(NonMatching(chunks))
         IN  IF Len(matches) = 1 \/ matches[1].chunk = EmptyBlock
             THEN [more |-> rest.more, done |-> <<PathsOf(matches)>> \o rest.done]
             ELSE [more |-> <<matches>> \o rest.more, done |-> rest.done]

\* the chunk read again from the start of the file at every round
ReadChunks_rewind(fs, hs, n) ==
    [i \in 1..Len(hs) |->
        [path |-> hs[i].path,
         pos |-> 0,
         chunk |-> Read(fs[hs[i].path], 0, n)]]

\* line 392: every handle of the set is read once
ReadChunks(fs, hs, n) ==
    [i \in 1..Len(hs) |->
        [path |-> hs[i].path,
         pos |-> hs[i].pos + Read(fs[hs[i].path], hs[i].pos, n).len,
         chunk |-> Read(fs[hs[i].path], hs[i].pos, n)]]

compareChunks(fs, hs, n) ==
    IF \E i \in 1..Len(hs) : ReadFails(fs[hs[i].path], hs[i].pos, n)
    THEN Raise("IOError")
    ELSE Ret(partitionChunks(ReadChunks(fs, hs, n)))

----------------------------------------------------------------------------
(* groupByContent *)

\* the path kept in hList although its open() raised
openAll_keep(fs, paths, stage) ==
    [i \in 1..Len(paths) |-> [path |-> paths[i], pos |-> 0, chunk |-> EmptyBlock]]

\* a batch of at most two streams opened, the other paths left for later
openAll_batch(fs, paths, stage) ==
    LET ok == SelectSeq(paths, LAMBDA p : ~OpenFails(fs[p], stage))
    IN  [i \in 1..Min(2, Len(ok)) |-> [path |-> ok[i], pos |-> 0, chunk |-> EmptyBlock]]

\* lines 355-361: open every path in turn, skipping those that raise IOError
openAll(fs, paths, stage) ==
    LET ok == SelectSeq(paths, LAMBDA p : ~OpenFails(fs[p], stage))
    IN  [i \in 1..Len(ok) |-> [path |-> ok[i], pos |-> 0, chunk |-> EmptyBlock]]

\* line 372: dict((x[0], x) for x in results); a repeated key keeps the last
resultDict(res) ==
    [k \in {res[i][1] : i \in 1..Len(res)} |->
        res[CHOOSE i \in 1..Len(res) :
                /\ res[i][1] = k
                /\ \A j \in 1..Len(res) : res[j][1] = k => j <= i]]

\* the sets that groupBy's update(group) receives from such a dict
asSets(d) == [k \in DOMAIN d |-> Range(d[k])]

\* only the pivot's stream closed: matches[0][1].close()
closeDone_first(open, done) == open \ {done[i][1] : i \in 1..Len(done)}

\* lines 406-407: x[1].close() for every member of a finished list
closeDone(open, done) == open \ Flatten(done)

\* handles.pop(i) and what is left of the worklist
Without(ss, i) == [j \in 1..(Len(ss) - 1) |-> IF j < i THEN ss[j] ELSE ss[j + 1]]

\* no call of hashFile on its own
NoCall == <<>>

Idle == [state |-> "idle", key |-> EmptyBlock, paths |-> <<>>, opened |-> {}]

----------------------------------------------------------------------------
(* find_dupes *)

StageHeader == 2

StageFinal == 3

groups == Last(stages)

Init ==
    /\ \E idx \in [Paths -> 1..Len(FileSeq)] :
          /\ \A p, q \in Paths : p < q => idx[p] <= idx[q]
          /\ files = [p \in Paths |-> FileSeq[idx[p]]]
    /\ min_size \in MinSizes
    /\ exact \in BOOLEAN
    /\ chunkSize \in (IF exact THEN ChunkSizes ELSE {CHUNK_SIZE})
    /\ collide \in BOOLEAN
    /\ pc = "size"
    /\ exc = "none"
    /\ stages = << [k \in {""} |-> Paths] >>
    /\ todo = {}
    /\ acc = EmptyDict
    /\ gbc = Idle
    /\ handles = <<>>
    /\ results = <<>>
    /\ openFh = {}
    /\ gbcLog = {}
    /\ reads = [p \in DOMAIN files |-> 0]
    /\ hashArgs = NoCall
    /\ hashRet = NoCall

\* an assignment `groups = groupBy(...)` of find_dupes, or the exception
Assign(r, next) ==
    IF IsRaise(r)
    THEN /\ pc' = "raised"
         /\ exc' = r.tag
         /\ UNCHANGED stages
    ELSE /\ pc' = next
         /\ stages' = Append(stages, r.val[1])
         /\ UNCHANGED exc

\* line 468
SizeStage ==
    /\ pc = "size"
    /\ Assign(groupBy([k \in DOMAIN groups |->
                           sizeClassifier(files, groups[k], min_size)], FALSE),
              "header")
    /\ UNCHANGED <<files, min_size, exact, chunkSize, collide, todo, acc, gbc,
                   handles, results, openFh, gbcLog>>
    /\ UNCHANGED <<reads, hashArgs, hashRet>>

\* line 473
HeaderStage ==
    /\ pc = "header"
    /\ Assign(groupBy([k \in DOMAIN groups |->
                           hashClassifier(files, groups[k], HEAD_SIZE, StageHeader)],
                       FALSE),
              "final")
    /\ UNCHANGED <<files, min_size, exact, chunkSize, collide, todo, acc, gbc,
                   handles, results, openFh, gbcLog>>
    /\ UNCHANGED <<reads, hashArgs, hashRet>>

\* line 478: hashClassifier is called without a limit argument, so its
\* default limit=HEAD_SIZE (line 315) applies
HashStage ==
    /\ pc = "final"
    /\ ~exact
    /\ Assign(groupBy([k \in DOMAIN groups |->
                           hashClassifier(files, groups[k], HEAD_SIZE, StageFinal)],
                       FALSE),
              "done")
    /\ UNCHANGED <<files, min_size, exact, chunkSize, collide, todo, acc, gbc,
                   handles, results, openFh, gbcLog>>
    /\ UNCHANGED <<reads, hashArgs, hashRet>>

\* line 476, groupBy line 248
ContentBegin ==
    /\ pc = "final"
    /\ exact
    /\ pc' = "content"
    /\ todo' = DOMAIN groups
    /\ acc' = EmptyDict
    /\ UNCHANGED <<files, min_size, exact, chunkSize, collide, exc, stages, gbc,
                   handles, results, openFh, gbcLog>>
    /\ UNCHANGED <<reads, hashArgs, hashRet>>

\* groupBy lines 249, 256 and groupByContent lines 352-361: the next group
\* of groups_in.values(), its paths in the order the set yields them
GBCOpen ==
    /\ pc = "content"
    /\ gbc.state = "idle"
    /\ \E k \in todo : \E paths \in Orders(groups[k]) :
          LET hList == openAll(files, paths, StageFinal)
          IN  /\ handles' = <<hList>>
              /\ results' = <<>>
              /\ openFh' = openFh \cup Range(PathsOf(hList))
              /\ gbc' = [state |-> "running", key |-> k, paths |-> paths,
                         opened |-> Range(PathsOf(hList))]
    /\ reads' = [p \in DOMAIN files |-> 0]
    /\ UNCHANGED <<files, min_size, exact, chunkSize, collide, pc, exc, stages,
                   todo, acc, gbcLog, hashArgs, hashRet>>

\* groupByContent lines 363-369, one turn of the while loop, the pending
\* set being taken from position i of the worklist
GBCRoundAt(i) ==
    /\ pc = "content"
    /\ gbc.state = "running"
    /\ handles # <<>>
    /\ \A j \in 1..Len(handles[i]) : reads[handles[i][j].path] < MaxReads
    /\ LET r == compareChunks(files, handles[i], chunkSize)
       IN  IF IsRaise(r)
           THEN /\ pc' = "raised"
                /\ exc' = r.tag
                /\ handles' = Without(handles, i)
                /\ UNCHANGED <<results, openFh, reads>>
           ELSE /\ handles' = Without(handles, i) \o r.val[1].more
                /\ results' = results \o r.val[1].done
                /\ openFh' = closeDone(openFh, r.val[1].done)
                /\ reads' = [p \in DOMAIN reads |->
                               IF p \in Range(PathsOf(handles[i]))
                               THEN reads[p] + 1 ELSE reads[p]]
                /\ UNCHANGED <<pc, exc>>
    /\ UNCHANGED <<files, min_size, exact, chunkSize, collide, stages, todo, acc,
                   gbc, gbcLog, hashArgs, hashRet>>

\* line 365 as written: handles.pop(0)
GBCRound == GBCRoundAt(1)

\* groupByContent line 372 and groupBy lines 256-258
GBCReturn ==
    /\ pc = "content"
    /\ gbc.state = "running"
    /\ handles = <<>>
    /\ acc' = Update(acc, asSets(resultDict(results)))
    /\ todo' = todo \ {gbc.key}
    /\ gbcLog' = gbcLog \cup {[paths |-> gbc.paths, opened |-> gbc.opened,
                               ret |-> resultDict(results)]}
    /\ gbc' = Idle
    /\ results' = <<>>
    /\ UNCHANGED <<files, min_size, exact, chunkSize, collide, pc, exc, stages,
                   handles, openFh>>
    /\ UNCHANGED <<reads, hashArgs, hashRet>>

\* groupBy lines 260-266 and the assignment of line 476
ContentEnd ==
    /\ pc = "content"
    /\ gbc.state = "idle"
    /\ todo = {}
    /\ pc' = "done"
    /\ stages' = Append(stages, keepGroups(acc, FALSE))
    /\ UNCHANGED <<files, min_size, exact, chunkSize, collide, exc, todo, acc,
                   gbc, handles, results, openFh, gbcLog>>
    /\ UNCHANGED <<reads, hashArgs, hashRet>>

Next ==
    \/ SizeStage
    \/ HeaderStage
    \/ HashStage
    \/ ContentBegin
    \/ GBCOpen
    \/ GBCRound
    \/ GBCReturn
    \/ ContentEnd

Spec == Init /\ [][Next]_vars

\* find_dupes with the worklist of line 365 served from either end:
\* handles.pop(0) or handles.pop()
GBCRoundEither == \E i \in {1, Len(handles)} : GBCRoundAt(i)

NextAnyOrder ==
    \/ SizeStage
    \/ HeaderStage
    \/ HashStage
    \/ ContentBegin
    \/ GBCOpen
    \/ GBCRoundEither
    \/ GBCReturn
    \/ ContentEnd

SpecAnyOrder == Init /\ [][NextAnyOrder]_vars

----------------------------------------------------------------------------
(* groupBy(groups, groupByContent) on one group of arbitrary files: line 476 *)
(* entered with groups = {'': paths}                                         *)

InitOn(P) ==
    /\ \E idx \in [P -> 1..Len(GbcFileSeq)] :
          /\ \A p, q \in P : p < q => idx[p] <= idx[q]
          /\ files = [p \in P |-> GbcFileSeq[idx[p]]]
    /\ min_size = 0
    /\ exact = TRUE
    /\ chunkSize \in ChunkSizes
    /\ collide = FALSE
    /\ pc = "content"
    /\ exc = "none"
    /\ stages = << [k \in {""} |-> P] >>
    /\ todo = {""}
    /\ acc = EmptyDict
    /\ gbc = Idle
    /\ handles = <<>>
    /\ results = <<>>
    /\ openFh = {}
    /\ gbcLog = {}
    /\ reads = [p \in DOMAIN files |-> 0]
    /\ hashArgs = NoCall
    /\ hashRet = NoCall

InitGBC == InitOn(GbcPaths)

NextGBC ==
    \/ GBCOpen
    \/ GBCRound
    \/ GBCReturn
    \/ ContentEnd

SpecGBC == InitGBC /\ [][NextGBC]_vars

\* The same call on fewer paths, the interpreter never stopping of itself
\* in the middle of the loops of lines 363-369 and 249-258
InitFair == InitOn(FairPaths)

SpecFair == InitFair /\ [][NextGBC]_vars /\ WF_vars(NextGBC)

----------------------------------------------------------------------------
(* hashFile(path, limit=..., chunk_size=...) called on its own, on two files *)

InitHash ==
    /\ files \in [HashPaths -> Range(HashFileSeq)]
    /\ hashArgs \in [limit : Limits, chunk_size : HashChunkSizes]
    /\ hashRet = NoCall
    /\ min_size = 0
    /\ exact = FALSE
    /\ chunkSize = CHUNK_SIZE
    /\ collide = FALSE
    /\ pc = "hash"
    /\ exc = "none"
    /\ stages = << [k \in {""} |-> HashPaths] >>
    /\ todo = {}
    /\ acc = EmptyDict
    /\ gbc = Idle
    /\ handles = <<>>
    /\ results = <<>>
    /\ openFh = {}
    /\ gbcLog = {}
    /\ reads = [p \in DOMAIN files |-> 0]

HashCall ==
    /\ pc = "hash"
    /\ pc' = "hashed"
    /\ hashRet' = [p \in HashPaths |->
                     hashFile(files, p, hashArgs.limit, hashArgs.chunk_size,
                              StageHeader)]
    /\ UNCHANGED <<files, min_size, exact, chunkSize, collide, exc, stages, todo,
                   acc, gbc, handles, results, openFh, gbcLog, reads, hashArgs>>

NextHash == HashCall

SpecHash == InitHash /\ [][NextHash]_vars

----------------------------------------------------------------------------
(* Vocabulary of the properties *)

Regular(p) == files[p].kind = "reg" /\ files[p].err = "none"

SameContent(a, b) ==
    files[a].size = files[b].size /\ files[a].ones = files[b].ones

SameHead(a, b) ==
    Read(files[a], 0, HEAD_SIZE) = Read(files[b], 0, HEAD_SIZE)

Together(g, a, b) == \E k \in DOMAIN g : a \in g[k] /\ b \in g[k]

Members(g) == UNION {g[k] : k \in DOMAIN g}

Returned == pc = "done"

Final == stages[4]

\* every group of `out` lies within one group of `in`
Refines(out, in) ==
    \A k \in DOMAIN out : \E j \in DOMAIN in : out[k] \subseteq in[j]

----------------------------------------------------------------------------
(* C1 *)

HeadTwins(a, b) ==
    /\ a # b
    /\ Regular(a) /\ Regular(b)
    /\ files[a].size = files[b].size
    /\ files[a].size >= min_size
    /\ SameHead(a, b)
    /\ ~SameContent(a, b)

\* C1: two regular readable files of one size >= min_size that agree on
\* their first HEAD_SIZE bytes and differ later share a group after the
\* header-digest stage, and share no group of the mapping find_dupes
\* returns, with exact=True and with exact=False (digest without collisions).
C1_HeadTwinsSeparated ==
    ~collide =>
        \A a, b \in Paths : HeadTwins(a, b) =>
            /\ Len(stages) >= 3 => Together(stages[3], a, b)
            /\ Returned => ~Together(Final, a, b)

----------------------------------------------------------------------------
(* C2 *)

\* C2: in find_dupes every group a groupBy stage puts out is a subset of
\* one group of that stage's input; paths of different input groups are
\* never merged under one classifier key (stated for a digest without
\* collisions, the case most favourable to the claim).
C2_StagesRefine ==
    ~collide => \A i \in 2..Len(stages) : Refines(stages[i], stages[i - 1])

----------------------------------------------------------------------------
(* C3 *)

Twins(a, b) ==
    /\ a # b
    /\ Regular(a) /\ Regular(b)
    /\ SameContent(a, b)
    /\ files[a].size >= min_size

\* C3: with exact=True, two distinct regular readable files of identical
\* content and size >= min_size share a group of the mapping find_dupes
\* returns, for each chunk size, for lengths that are a multiple of the
\* chunk size and for zero-length files.
C3_TwinsGrouped ==
    (Returned /\ exact) =>
        \A a, b \in Paths : Twins(a, b) => Together(Final, a, b)

C3_Witness ==
    /\ Returned /\ exact /\ min_size = 0
    /\ \E a, b, c, d \in Paths :
          /\ Twins(a, b) /\ files[a].size = 0
          /\ Twins(c, d) /\ files[c].size = 2 * CHUNK_SIZE
          /\ Together(Final, a, b) /\ Together(Final, c, d)
          /\ ~Together(Final, a, c)

----------------------------------------------------------------------------
(* C4 *)

\* C4: with exact=True, two paths sharing a group of the returned mapping
\* have identical content over their whole length, colliding digests or
\* not; and every list of more than one path that groupByContent has
\* finalized holds streams that are all at end of file with equal content.
C4_ExactGroupsIdentical ==
    /\ (Returned /\ exact) =>
          \A a, b \in Paths : Together(Final, a, b) => SameContent(a, b)
    /\ \A i \in 1..Len(results) : \A a, b \in Range(results[i]) :
          SameContent(a, b)

C4_Witness ==
    /\ Returned /\ exact /\ collide
    /\ \E a, b, c \in Paths :
          /\ Together(stages[3], a, c) /\ ~SameHead(a, c)
          /\ Together(Final, a, b) /\ a # b
          /\ ~Together(Final, a, c)

----------------------------------------------------------------------------
(* C5 *)

GroupSizes(ret) == {Len(ret[k]) : k \in DOMAIN ret}

\* C5: the mapping groupByContent returns partitions the input paths it
\* opened: its lists hold no path twice, are pairwise disjoint, cover every
\* opened path (a path matching nothing in a list of its own) and hold no
\* other path; each list is keyed by its first path.
C5_ContentPartition ==
    \A e \in gbcLog :
        /\ e.opened = {p \in Range(e.paths) : ~OpenFails(files[p], StageFinal)}
        /\ UNION {Range(e.ret[k]) : k \in DOMAIN e.ret} = e.opened
        /\ \A k \in DOMAIN e.ret :
              /\ e.ret[k] # <<>> /\ e.ret[k][1] = k
              /\ \A i, j \in 1..Len(e.ret[k]) : e.ret[k][i] = e.ret[k][j] => i = j
        /\ \A k, l \in DOMAIN e.ret :
              k # l => Range(e.ret[k]) \cap Range(e.ret[l]) = {}

\* three identical files and two files unlike any other: lists of 3, 1 and 1
C5_Witness ==
    \E e \in gbcLog :
        /\ Cardinality(e.opened) = 5
        /\ \E a, b, c, d, f \in e.opened :
              /\ Cardinality({a, b, c, d, f}) = 5
              /\ SameContent(a, b) /\ SameContent(b, c)
              /\ ~SameContent(a, d) /\ ~SameContent(a, f) /\ ~SameContent(d, f)
              /\ Len(e.ret[d]) = 1 /\ Len(e.ret[f]) = 1
        /\ Cardinality(DOMAIN e.ret) = 3
        /\ GroupSizes(e.ret) = {1, 3}

----------------------------------------------------------------------------
(* C6 *)

\* C6: no file smaller than min_size is in a group of any stage of
\* find_dupes or of sizeClassifier's output, and with min_size = 0 the size
\* stage excludes no file for its size: sizeClassifier keys every file that
\* is not a symbolic link.
C6_MinSize ==
    /\ \A i \in 2..Len(stages) : \A p \in Members(stages[i]) :
          files[p].size >= min_size
    /\ LET r == sizeClassifier(files, Paths, min_size)
       IN  r.tag = "ret" =>
             /\ \A p \in Members(r.val[1]) : files[p].size >= min_size
             /\ min_size = 0 =>
                   Members(r.val[1]) = {p \in Paths : files[p].kind # "lnk"}
    /\ (min_size = 0 /\ Len(stages) >= 2) =>
          \A a, b \in Paths :
             (a # b /\ files[a].kind = "reg" /\ files[b].kind = "reg"
                /\ files[a].size = files[b].size) => a \in Members(stages[2])

C6_Witness ==
    /\ Returned /\ min_size = 11
    /\ \E a, b, c \in Paths :
          /\ a # b /\ Regular(a) /\ Regular(b) /\ SameContent(a, b)
          /\ files[a].size = 10
          /\ a \notin Members(Final) /\ b \notin Members(Final)
          /\ c \in Members(Final)

----------------------------------------------------------------------------
(* C7 *)

\* C7: a path that lstat reports as a symbolic link is in no group that
\* sizeClassifier puts out and in no group of any stage of find_dupes.
C7_NoSymlinks ==
    /\ \A i \in 2..Len(stages) : \A p \in Members(stages[i]) :
          files[p].kind # "lnk"
    /\ LET r == sizeClassifier(files, Paths, min_size)
       IN  r.tag = "ret" => \A p \in Members(r.val[1]) : files[p].kind # "lnk"

C7_Witness ==
    /\ Returned
    /\ \E a, b, c \in Paths :
          /\ a # b /\ files[a].kind = "lnk" /\ files[b].kind = "lnk"
          /\ Regular(c) /\ files[c].size = files[a].size
          /\ c \in Members(Final)
          /\ a \notin Members(Final)

----------------------------------------------------------------------------
(* C8 *)

OnlyOpenErrors == \A p \in Paths : files[p].err \in {"none", "open"}

\* C8: a path that cannot be opened does not make hashClassifier raise: with
\* no other kind of I/O error present find_dupes raises nothing, and the
\* path is in no group of the stage that could not open it.
C8_OpenErrorSkipped ==
    OnlyOpenErrors =>
        /\ pc # "raised"
        /\ \A i \in 3..Len(stages) : \A p \in Members(stages[i]) :
              ~OpenFails(files[p], i - 1)

----------------------------------------------------------------------------
(* C9 *)

\* C9: a read error during comparison does not leave groupByContent as an
\* exception: no call of groupByContent ends by raising.
C9_ReadErrorFinalizes ==
    ~(pc = "raised" /\ gbc.state = "running")

----------------------------------------------------------------------------
(* C10 *)

\* C10: when lstat fails for a path given to sizeClassifier the error
\* reaches the caller: sizeClassifier raises instead of returning a mapping,
\* and find_dupes ends with that error before any later stage runs.
C10_StatErrorSurfaces ==
    (\E p \in Paths : files[p].err = "stat") =>
        /\ sizeClassifier(files, Paths, min_size) = Raise("OSError")
        /\ \/ pc = "size"
           \/ pc = "raised" /\ exc = "OSError" /\ Len(stages) = 1

C10_Witness ==
    /\ pc = "raised" /\ exc = "OSError"
    /\ \E p, q \in Paths : files[p].err = "stat" /\ Regular(q)

----------------------------------------------------------------------------
(* C11 *)

Openable(paths) == {p \in Range(paths) : ~OpenFails(files[p], StageFinal)}

NoReadYet == \A p \in DOMAIN reads : reads[p] = 0

\* C11 as claimed: the streams open at one time stay below a bound that
\* does not grow with the input, the other paths waiting for a later batch;
\* so for the largest input here fewer streams are open than paths given.
C11_OpenStreamsBounded ==
    (gbc.state = "running" /\ Len(gbc.paths) = NumGbcPaths) =>
        Cardinality(openFh) < Len(gbc.paths)

\* C11 as amended: groupByContent opens every path of its argument that can
\* be opened before the first comparison, all at the same time and in no
\* batches, so the streams open at one time are at most, and can be, as
\* many as the paths given.
C11_AllOpenedTogether ==
    gbc.state = "running" =>
        /\ Cardinality(openFh) <= Len(gbc.paths)
        /\ gbc.opened = Openable(gbc.paths)
        /\ (NoReadYet /\ pc # "raised") => openFh = Openable(gbc.paths)

C11_Witness ==
    /\ gbc.state = "running"
    /\ NoReadYet
    /\ Cardinality(openFh) = NumGbcPaths

----------------------------------------------------------------------------
(* C12 *)

PendingPaths == UNION {Range(PathsOf(handles[i])) : i \in 1..Len(handles)}

\* C12: while groupByContent runs without an exception, the open streams
\* are exactly those of the paths in the pending sets of the worklist, no
\* path of a finalized list has an open stream, and outside a call of
\* groupByContent no stream is open.
C12_OpenIffPending ==
    pc # "raised" =>
        /\ openFh = PendingPaths
        /\ openFh \cap Flatten(results) = {}
        /\ gbc.state = "idle" => openFh = {}

C12_Witness ==
    /\ gbc.state = "running"
    /\ pc # "raised"
    /\ \E i \in 1..Len(results) : Len(results[i]) > 1
    /\ handles # <<>>
    /\ openFh # {}

----------------------------------------------------------------------------
(* C13 *)

AllReadable == \A p \in DOMAIN files : files[p].err # "read"

\* C13: a call of groupByContent on files that can all be read terminates:
\* once the call has opened its paths, its worklist becomes empty.
C13_Terminates ==
    (gbc.state = "running" /\ AllReadable)
        ~> (gbc.state = "running" /\ handles = <<>>)

C13_Witness ==
    /\ gbc.state = "running" /\ AllReadable
    /\ handles = <<>>
    /\ \E i \in 1..Len(results) :
          /\ Len(results[i]) > 1
          /\ reads[results[i][1]] = 3

----------------------------------------------------------------------------
(* C14 *)

GroupSets(g) == {g[k] : k \in DOMAIN g}

Multiple(C) == {c \in C : Cardinality(c) > 1}

HeadKey(p) == sha1(Read(files[p], 0, HEAD_SIZE))

SameHeadKey(a, b) == HeadKey(a) = HeadKey(b)

ContentClasses(S) == {{q \in S : SameContent(p, q)} : p \in S}

HeadKeyClasses(S) == {{q \in S : SameHeadKey(p, q)} : p \in S}

\* the paths with a size key that another path has too
SizeSurvivors ==
    LET keyed == {p \in DOMAIN files :
                     files[p].kind = "reg" /\ files[p].size >= min_size}
    IN  {p \in keyed : \E q \in keyed \ {p} : files[q].size = files[p].size}

\* of those, the paths with a header digest that another one has too
HeadSurvivors ==
    {p \in SizeSurvivors : \E q \in SizeSurvivors \ {p} : SameHeadKey(p, q)}

\* the grouping as a function of the files and the arguments alone
ExpectedGrouping ==
    IF exact
    THEN Multiple(ContentClasses({p \in HeadSurvivors :
                                     ~OpenFails(files[p], StageFinal)}))
    ELSE HeadKeyClasses(HeadSurvivors)

\* C14: the grouping find_dupes returns, as a set of path sets, is a
\* function of the files and the arguments: whatever the order in which
\* groups and paths are iterated and whichever end of the worklist
\* groupByContent serves, the same grouping is returned.
C14_GroupingDetermined ==
    Returned => GroupSets(Final) = ExpectedGrouping

C14_Witness ==
    /\ Returned /\ exact
    /\ \E a, b, c, d \in Paths :
          /\ Together(stages[3], a, c)
          /\ a # b /\ Together(Final, a, b)
          /\ c # d /\ Together(Final, c, d)
          /\ ~Together(Final, a, c)
          /\ reads[a] = 3 /\ reads[c] = 3

----------------------------------------------------------------------------
(* C15 *)

AloneInSize(p) ==
    \A q \in Paths \ {p} :
        files[q].kind = "lnk" \/ files[q].size # files[p].size

\* C15: without keep_uniques groupBy returns exactly the merged classifier
\* groups of more than one member, with keep_uniques all of them; so every
\* group of every stage of find_dupes has at least two members, and a file
\* alone in its size class is in no group from the size stage on.
C15_UniquesDropped ==
    /\ \A i \in 2..Len(stages) : \A k \in DOMAIN stages[i] :
          Cardinality(stages[i][k]) >= 2
    /\ Len(stages) >= 2 =>
          LET r == sizeClassifier(files, Paths, min_size).val[1]
          IN  /\ GroupSets(stages[2]) = Multiple(GroupSets(r))
              /\ keepGroups(r, TRUE) = r
    /\ (Returned /\ exact) =>
          /\ GroupSets(Final) = Multiple(GroupSets(acc))
          /\ keepGroups(acc, TRUE) = acc
    /\ \A i \in 2..Len(stages) : \A p \in Paths :
          AloneInSize(p) => p \notin Members(stages[i])

C15_Witness ==
    /\ min_size = 5
    /\ Len(stages) >= 3
    /\ \E a, b, c \in Paths :
          /\ a # b /\ Regular(a) /\ Regular(b) /\ Regular(c)
          /\ files[a].size = 10 /\ files[b].size = 10 /\ files[c].size = 12
          /\ AloneInSize(c)
          /\ {a, b} \in GroupSets(stages[2])
          /\ c \notin Members(stages[2])

----------------------------------------------------------------------------
(* C16 *)

CeilDiv(a, b) == (a + b - 1) \div b

RECURSIVE MaxOf(_)
MaxOf(S) ==
    IF S = {} THEN 0
    ELSE LET x == CHOOSE y \in S : TRUE
             m == MaxOf(S \ {x})
         IN  IF x > m THEN x ELSE m

Longest == MaxOf({files[p].size : p \in gbc.opened})

\* C16 as claimed: no stream is read by compareChunks more than (longest
\* file length / chunk size) times, the quotient rounded up.
C16_RoundsWithinQuotient ==
    gbc.state = "running" =>
        \A p \in gbc.opened : reads[p] <= CeilDiv(Longest, chunkSize)

\* C16 as amended: no stream is read more than ceil(its own length / chunk
\* size) + 1 times, the last read being the empty one at end of file; so
\* groupByContent finishes within ceil(longest length / chunk size) + 1
\* rounds.
C16_RoundsWithinQuotientPlusOne ==
    gbc.state = "running" =>
        \A p \in gbc.opened :
            /\ reads[p] <= CeilDiv(files[p].size, chunkSize) + 1
            /\ reads[p] <= CeilDiv(Longest, chunkSize) + 1

C16_Witness ==
    /\ gbc.state = "running" /\ handles = <<>>
    /\ \E p, q \in gbc.opened :
          /\ files[p].size = 0 /\ reads[p] = 1
          /\ files[q].size = 2 * chunkSize /\ reads[q] = 3

----------------------------------------------------------------------------
(* C17 *)

\* the path lists of the pending sets followed by the finalized lists
Owners == [i \in 1..Len(handles) |-> PathsOf(handles[i])] \o results

\* C17: in groupByContent no path is in two pending sets, twice in one, or
\* in a pending set and a finalized list; every open stream belongs to
\* exactly one pending set.
C17_SetsDisjoint ==
    /\ \A i, j \in 1..Len(Owners) :
          \A m \in 1..Len(Owners[i]) : \A n \in 1..Len(Owners[j]) :
             Owners[i][m] = Owners[j][n] => (i = j /\ m = n)
    /\ pc # "raised" =>
          \A p \in openFh :
             Cardinality({i \in 1..Len(handles) : p \in Range(PathsOf(handles[i]))}) = 1

C17_Witness ==
    /\ Len(handles) >= 2
    /\ results # <<>>
    /\ \A i \in 1..Len(handles) : Len(handles[i]) >= 2

----------------------------------------------------------------------------
(* C18 *)

Unopenable(paths) == Range(paths) \ Openable(paths)

\* C18: a path whose open() fails in groupByContent is in no list of the
\* returned mapping, the failure raises nothing, and the other paths are
\* grouped as they would be without it: two of them share a list exactly
\* when their contents are identical.
C18_OpenFailureDropped ==
    /\ \A e \in gbcLog :
          /\ \A p \in Unopenable(e.paths) : \A k \in DOMAIN e.ret :
                p \notin Range(e.ret[k])
          /\ \A a, b \in Openable(e.paths) :
                (\E k \in DOMAIN e.ret : {a, b} \subseteq Range(e.ret[k]))
                   <=> SameContent(a, b)
    /\ AllReadable => pc # "raised"

C18_Witness ==
    \E e \in gbcLog :
        /\ Unopenable(e.paths) # {}
        /\ \E k \in DOMAIN e.ret : Len(e.ret[k]) > 1
        /\ \E k \in DOMAIN e.ret : Len(e.ret[k]) = 1

----------------------------------------------------------------------------
(* C19 *)

\* C19: every group of the mapping find_dupes returns holds files of one
\* size, with exact=True and with exact=False (stated for a digest without
\* collisions).
C19_GroupsOfOneSize ==
    (Returned /\ ~collide) =>
        \A a, b \in Paths :
            Together(Final, a, b) => files[a].size = files[b].size

----------------------------------------------------------------------------
(* C20 *)

\* the limit rounded up to whole reads of c = min(chunk_size, limit) bytes
Digested(f) ==
    IF hashArgs.limit = NoLimit THEN f.size
    ELSE LET c == Min(hashArgs.chunk_size, hashArgs.limit)
         IN  Min(f.size, c * CeilDiv(hashArgs.limit, c))

Prefix(f, n) == [len |-> Min(n, f.size), ones |-> {o \in f.ones : o < n}]

====
